---- MODULE Spec2Model ----
(***************************************************************************)
(* apple-health-influxdb: the HTTP handler that receives a health export,  *)
(* decodes it and submits one point per data record to the InfluxDB write  *)
(* API.  The repository holds two builds of package main: main.go, whose   *)
(* incomingMetric returns early for "sleep_analysis", and part_000, whose  *)
(* parseMetricDataPoint parses the sleep date fields.  Both are modelled;  *)
(* the variable build says which one is running.                           *)
(*                                                                         *)
(* Text is modelled by what the code scans from it.  A JSON string value   *)
(* is the sequence of numbers a scan with the layout                       *)
(* "2006-01-02 15:04:05 -0700" would read: <<day, hour, zone>>; a text of  *)
(* another shape is a sequence of another length.  A request body is the   *)
(* sequence of the elements of "data.metrics" in document order: an        *)
(* element is null, the head of a metric object, or one record of the      *)
(* "data" array of the metric opened last.                                 *)
(***************************************************************************)
EXTENDS Integers, Sequences, FiniteSets, TLC

VARIABLES
    build,                \* which source file was compiled
    authenticationToken,  \* var authenticationToken string
    influxWriteAPI,       \* var influxWriteAPI influxapi.WriteAPIBlocking
    payloadFile,          \* the bytes of "payload.json"
    req,                  \* req[r]: the request goroutine r handles
    pc,                   \* pc[r]: where goroutine r is in handleDataPayload
    status,               \* status[r]: the response status, 0 while none is sent
    respBody,             \* respBody[r]: the response body
    payload,              \* payload[r]: the decoded healthDataPayload
    mi,                   \* mi[r]: index of the metric of the range loop
    di,                   \* di[r]: index of the datum of the range loop
    hasErrors,            \* hasErrors[r]
    calls                 \* calls[r]: the calls of parseMetricDataPoint so far

vars == <<build, authenticationToken, influxWriteAPI, payloadFile, req, pc,
          status, respBody, payload, mi, di, hasErrors, calls>>

(***************************************************************************)
(* Bounds.                                                                 *)
(***************************************************************************)
MaxBodyLen == 4

Builds == {"main.go", "part_000"}
Reqs == {1, 2}

(***************************************************************************)
(* JSON values as encoding/json decodes them into interface{}.             *)
(***************************************************************************)
JString(s) == [t |-> "string", s |-> s]
JNumber(n) == [t |-> "number", n |-> n]
JNull == [t |-> "null"]

\* A time.Time: the instant (hours since the first day, UTC) and its zone.
TimeValue(u, z) == [t |-> "time", unix |-> u, zone |-> z]

\* time.Now(), returned beside an error and dropped by every caller.
TimeNow == TimeValue(0, 0)

\* time.Parse("2006-01-02 15:04:05 -0700", s): the text must have the shape
\* of the layout and its day and hour must be in range.
TimeParse(s) ==
    IF Len(s) = 3 /\ s[1] \in 1..31 /\ s[2] \in 0..23
    THEN [err |-> "nil", time |-> TimeValue((s[1] - 1) * 24 + s[2] - s[3], s[3])]
    ELSE [err |-> "parsing time", time |-> TimeNow]

sleepAnalysisDateFields == <<"inBedEnd", "inBedStart", "sleepStart", "sleepEnd">>

\* parseMetricDate without the type assertion: a date of another type passes.
parseMetricDate_Lenient(date) ==
    IF date.t # "string"
    THEN [err |-> "nil", time |-> TimeNow]
    ELSE TimeParse(date.s)

parseMetricDate(date) ==
    IF date.t # "string"
    THEN [err |-> "date must be string", time |-> TimeNow]
    ELSE TimeParse(date.s)

(***************************************************************************)
(* influxdb2 points, as this code builds them.                             *)
(***************************************************************************)
NewPointWithMeasurement(m) ==
    [measurement |-> m, times |-> <<>>, tags |-> <<>>, fields |-> <<>>]
SetTime(p, tm) == [p EXCEPT !.times = Append(@, tm)]
AddTag(p, k, v) == [p EXCEPT !.tags = Append(@, [key |-> k, value |-> v])]
AddField(p, k, v) == [p EXCEPT !.fields = Append(@, [key |-> k, value |-> v])]

\* SleepField dropping the error of parseMetricDate: the raw value is added.
SleepField_Swallow(p, k, v) ==
    IF \E i \in 1..Len(sleepAnalysisDateFields) : sleepAnalysisDateFields[i] = k
    THEN LET vdate == parseMetricDate(v)
         IN  IF vdate.err # "nil"
             THEN [err |-> "nil", p |-> AddField(p, k, v)]
             ELSE [err |-> "nil", p |-> AddField(p, k, vdate.time)]
    ELSE [err |-> "nil", p |-> AddField(p, k, v)]

\* The body of "for k, v := range datum" of part_000 for one key.
\* Returns the error and the point.
SleepField(p, k, v) ==
    IF \E i \in 1..Len(sleepAnalysisDateFields) : sleepAnalysisDateFields[i] = k
    THEN LET vdate == parseMetricDate(v)
         IN  IF vdate.err # "nil"
             THEN [err |-> vdate.err, p |-> p]
             ELSE [err |-> "nil", p |-> AddField(p, k, vdate.time)]
    ELSE [err |-> "nil", p |-> AddField(p, k, v)]

\* The test without the metric's name: every metric is parsed as sleep data.
IsSleepAnalysis_AnyName(b, metric) == b = "part_000"

\* Whether the loop takes the branch "metric.Name == sleep_analysis", which
\* only part_000 has.
IsSleepAnalysis(b, metric) == b = "part_000" /\ metric.Name = "sleep_analysis"

\* One pass of the range loop over datum, the keys visited in `order`.
RECURSIVE FieldLoop(_, _, _, _, _, _)
FieldLoop(b, metric, datum, order, i, p) ==
    IF i > Len(order) THEN [err |-> "nil", p |-> p]
    ELSE LET k == order[i]
             v == datum[k]
         IN  IF k = "date" THEN FieldLoop(b, metric, datum, order, i + 1, p)
             ELSE IF IsSleepAnalysis(b, metric)
             THEN LET s == SleepField(p, k, v)
                  IN  IF s.err # "nil" THEN s
                      ELSE FieldLoop(b, metric, datum, order, i + 1, s.p)
             ELSE FieldLoop(b, metric, datum, order, i + 1, AddField(p, k, v))

\* influxWriteAPI.WritePoint: blocking, fails or not as the store decides.
WritePoint(ok) == IF ok THEN "nil" ELSE "write error"

\* parseMetricDataPoint treating a missing date as an error.
parseMetricDataPoint_DateRequired(b, metric, datum, order, writeOK) ==
    IF "date" \notin DOMAIN datum THEN [err |-> "date missing", writes |-> <<>>]
    ELSE LET d == parseMetricDate(datum["date"])
         IN  IF d.err # "nil" THEN [err |-> d.err, writes |-> <<>>]
             ELSE LET p0 == AddTag(SetTime(NewPointWithMeasurement(
                                "apple_health_" \o metric.Name), d.time),
                                "units", metric.Units)
                      l == FieldLoop(b, metric, datum, order, 1, p0)
                  IN  IF l.err # "nil" THEN [err |-> l.err, writes |-> <<>>]
                      ELSE [err |-> WritePoint(writeOK), writes |-> <<l.p>>]

\* parseMetricDataPoint.  order: the order in which range visits the keys of
\* the map; writeOK: whether the write API accepts the point.  Returns the
\* error and the points handed to WritePoint.
parseMetricDataPoint(b, metric, datum, order, writeOK) ==
    IF "date" \notin DOMAIN datum THEN [err |-> "nil", writes |-> <<>>]
    ELSE LET d == parseMetricDate(datum["date"])
         IN  IF d.err # "nil" THEN [err |-> d.err, writes |-> <<>>]
             ELSE LET p0 == AddTag(SetTime(NewPointWithMeasurement(
                                "apple_health_" \o metric.Name), d.time),
                                "units", metric.Units)
                      l == FieldLoop(b, metric, datum, order, 1, p0)
                  IN  IF l.err # "nil" THEN [err |-> l.err, writes |-> <<>>]
                      ELSE [err |-> WritePoint(writeOK), writes |-> <<l.p>>]

\* The orders in which range may visit the keys of a map.
KeyOrders(datum) ==
    LET K == DOMAIN datum
        n == Cardinality(K)
    IN  {o \in [1..n -> K] : \A i, j \in 1..n : i # j => o[i] # o[j]}

(***************************************************************************)
(* Request bodies and json.Unmarshal into healthDataPayload.               *)
(***************************************************************************)
NullElem == [t |-> "null"]
MetricElem(name, units) == [t |-> "metric", name |-> name, units |-> units]
DatumElem(d) == [t |-> "datum", fields |-> d]

NilMetric == [ptr |-> "nil"]
Metric(name, units, data) ==
    [ptr |-> "ok", Name |-> name, Units |-> units, Data |-> data]

\* Decoding from element i on; metrics: the decoded metrics so far.
RECURSIVE Decode(_, _, _)
Decode(body, i, metrics) ==
    IF i > Len(body) THEN [err |-> "nil", Metrics |-> metrics]
    ELSE LET e == body[i]
             n == Len(metrics)
         IN  IF e.t = "null" THEN Decode(body, i + 1, Append(metrics, NilMetric))
             ELSE IF e.t = "metric"
             THEN Decode(body, i + 1, Append(metrics, Metric(e.name, e.units, <<>>)))
             ELSE IF n = 0 \/ metrics[n].ptr = "nil"
             THEN [err |-> "cannot unmarshal", Metrics |-> <<>>]
             ELSE Decode(body, i + 1,
                    [metrics EXCEPT ![n].Data = Append(@, e.fields)])

Unmarshal(body) == Decode(body, 1, <<>>)

(***************************************************************************)
(* The inputs: data records, body elements, bodies and requests.           *)
(***************************************************************************)
NoDate == ("value" :> JNumber(72))
NumberDate == ("date" :> JNumber(5) @@ "value" :> JNumber(72))
BadDate == ("date" :> JString(<<1, 24, 0>>))
GoodDatum == ("date" :> JString(<<1, 8, 0>>) @@ "value" :> JNumber(72))
SleepDatum ==
    ("date" :> JString(<<2, 9, 1>>) @@ "inBedEnd" :> JString(<<2, 7, 1>>)
        @@ "value" :> JNumber(8))
BadSleepDatum ==
    ("date" :> JString(<<2, 9, 1>>) @@ "sleepStart" :> JString(<<7>>)
        @@ "value" :> JNull)

Datums == {NoDate, NumberDate, BadDate, GoodDatum, SleepDatum, BadSleepDatum}

HeartRate == MetricElem("heart_rate", "count/min")
SleepAnalysis == MetricElem("sleep_analysis", "hr")

Elems == {NullElem, HeartRate, SleepAnalysis} \cup {DatumElem(d) : d \in Datums}

SeqsUpTo(S, n) == UNION {[1..k -> S] : k \in 0..n}

Bodies == SeqsUpTo(Elems, MaxBodyLen)

\* The secret main was started with: the default of the flag, or empty.
Tokens == {"supersecret", ""}
\* The Authorization header: missing, the default secret, or a near miss.
Headers == {"", "supersecret"}
NearMiss == "Supersecret"

Request(method, auth, readErr, body) ==
    [method |-> method, auth |-> auth, readErr |-> readErr, body |-> body]

\* Every POST with a readable body, and a few requests of the other kinds.
Requests ==
    {Request("POST", a, FALSE, b) : a \in Headers, b \in Bodies}
    \cup {Request(m, a, e, <<>>) : m \in {"GET", "POST"},
                                   a \in Headers \cup {NearMiss}, e \in BOOLEAN}
    \cup {Request("POST", NearMiss, FALSE, <<HeartRate, DatumElem(GoodDatum)>>)}

NoRequest == [method |-> "none"]
NoPayload == [err |-> "none"]

(***************************************************************************)
(* handleDataPayload, one goroutine per request.                           *)
(***************************************************************************)
Finish(r, code, text) ==
    /\ status' = [status EXCEPT ![r] = code]
    /\ respBody' = [respBody EXCEPT ![r] = text]
    /\ pc' = [pc EXCEPT ![r] = "done"]

\* The method and the Authorization header.
Authenticate(r) ==
    /\ pc[r] = "start"
    /\ IF req[r].method # "POST" THEN Finish(r, 405, "")
       ELSE IF req[r].auth # authenticationToken
       THEN Finish(r, 403, "missing or invalid Authorization header")
       ELSE /\ pc' = [pc EXCEPT ![r] = "read"]
            /\ UNCHANGED <<status, respBody>>
    /\ UNCHANGED <<build, authenticationToken, influxWriteAPI, payloadFile, req,
                   payload, mi, di, hasErrors, calls>>

\* ioutil.ReadAll and json.Unmarshal.
ReadAndUnmarshal(r) ==
    /\ pc[r] = "read"
    /\ IF req[r].readErr
       THEN Finish(r, 500, "") /\ UNCHANGED payload
       ELSE LET dec == Unmarshal(req[r].body)
            IN  IF dec.err # "nil"
                THEN Finish(r, 400, "") /\ UNCHANGED payload
                ELSE /\ payload' = [payload EXCEPT ![r] = dec]
                     /\ pc' = [pc EXCEPT ![r] = "open"]
                     /\ UNCHANGED <<status, respBody>>
    /\ UNCHANGED <<build, authenticationToken, influxWriteAPI, payloadFile, req,
                   mi, di, hasErrors, calls>>

\* write(2) of data at offset 0 of a file holding `file`.
WriteAt0(file, data) ==
    [i \in 1..(IF Len(file) > Len(data) THEN Len(file) ELSE Len(data)) |->
        IF i <= Len(data) THEN data[i] ELSE file[i]]

\* ioutil.WriteFile: open with O_TRUNC ...
OpenPayloadFile(r) ==
    /\ pc[r] = "open"
    /\ payloadFile' = <<>>
    /\ pc' = [pc EXCEPT ![r] = "write"]
    /\ UNCHANGED <<build, authenticationToken, influxWriteAPI, req, status,
                   respBody, payload, mi, di, hasErrors, calls>>

\* ... write and close; then "hasErrors := false" and the loop begins.
WritePayloadFile(r) ==
    /\ pc[r] = "write"
    /\ payloadFile' = WriteAt0(payloadFile, req[r].body)
    /\ hasErrors' = [hasErrors EXCEPT ![r] = FALSE]
    /\ mi' = [mi EXCEPT ![r] = 1]
    /\ pc' = [pc EXCEPT ![r] = "metrics"]
    /\ UNCHANGED <<build, authenticationToken, influxWriteAPI, req, status,
                   respBody, payload, di, calls>>

\* Whether incomingMetric returns before its loop over metric.Data.
EarlyReturn(b, metric) ==
    \/ Len(metric.Data) = 0
    \/ b = "main.go" /\ metric.Name = "sleep_analysis"

\* The next metric of the range loop enters incomingMetric.
IncomingMetric(r) ==
    /\ pc[r] = "metrics"
    /\ mi[r] <= Len(payload[r].Metrics)
    /\ LET metric == payload[r].Metrics[mi[r]]
       IN  IF metric.ptr = "nil"
           THEN \* metric.Data dereferences nil: the goroutine panics
                /\ pc' = [pc EXCEPT ![r] = "panicked"]
                /\ UNCHANGED <<mi, di>>
           ELSE IF EarlyReturn(build, metric)
           THEN /\ mi' = [mi EXCEPT ![r] = @ + 1]
                /\ UNCHANGED <<pc, di>>
           ELSE /\ di' = [di EXCEPT ![r] = 1]
                /\ pc' = [pc EXCEPT ![r] = "data"]
                /\ UNCHANGED mi
    /\ UNCHANGED <<build, authenticationToken, influxWriteAPI, payloadFile, req,
                   status, respBody, payload, hasErrors, calls>>

\* incomingMetric going on with the loop after an error.
AfterDatum_NoFailFast(err, d, n) == IF d < n THEN "next" ELSE "return"

\* What incomingMetric does with the result of parseMetricDataPoint on the
\* datum at index d of n: "stop" returns the error, "next" goes on with the
\* loop, "return" leaves the loop with nil.
AfterDatum(err, d, n) ==
    IF err # "nil" THEN "stop" ELSE IF d < n THEN "next" ELSE "return"

\* One turn of the loop of incomingMetric: parseMetricDataPoint on a datum.
ParseDatum(r) ==
    /\ pc[r] = "data"
    /\ LET metric == payload[r].Metrics[mi[r]]
           datum == metric.Data[di[r]]
       IN  \E order \in KeyOrders(datum), writeOK \in BOOLEAN :
             LET res == parseMetricDataPoint(build, metric, datum, order, writeOK)
                 go == AfterDatum(res.err, di[r], Len(metric.Data))
             IN  /\ calls' = [calls EXCEPT ![r] = Append(@,
                        [m |-> mi[r], d |-> di[r], err |-> res.err,
                         writes |-> res.writes])]
                 /\ hasErrors' = [hasErrors EXCEPT ![r] = @ \/ go = "stop"]
                 /\ IF go = "next"
                    THEN /\ di' = [di EXCEPT ![r] = @ + 1]
                         /\ UNCHANGED <<pc, mi>>
                    ELSE /\ mi' = [mi EXCEPT ![r] = @ + 1]
                         /\ pc' = [pc EXCEPT ![r] = "metrics"]
                         /\ UNCHANGED di
    /\ UNCHANGED <<build, authenticationToken, influxWriteAPI, payloadFile, req,
                   status, respBody, payload>>

\* The status the handler ends with once every metric was attempted.
FinalStatus(errors) == IF errors THEN 500 ELSE 200

Respond(r) ==
    /\ pc[r] = "metrics"
    /\ mi[r] > Len(payload[r].Metrics)
    /\ Finish(r, FinalStatus(hasErrors[r]), "")
    /\ UNCHANGED <<build, authenticationToken, influxWriteAPI, payloadFile, req,
                   payload, mi, di, hasErrors, calls>>

Next ==
    \E r \in Reqs :
        \/ Authenticate(r)
        \/ ReadAndUnmarshal(r)
        \/ OpenPayloadFile(r)
        \/ WritePayloadFile(r)
        \/ IncomingMetric(r)
        \/ ParseDatum(r)
        \/ Respond(r)

\* The state once main has set the globals and a goroutine holds `rq`.
Started(rq) ==
    /\ build \in Builds
    /\ authenticationToken \in Tokens
    /\ influxWriteAPI = "WriteAPIBlocking"
    /\ payloadFile = <<>>
    /\ req = rq
    /\ pc = [r \in Reqs |-> IF rq[r] = NoRequest THEN "none" ELSE "start"]
    /\ status = [r \in Reqs |-> 0]
    /\ respBody = [r \in Reqs |-> ""]
    /\ payload = [r \in Reqs |-> NoPayload]
    /\ mi = [r \in Reqs |-> 0]
    /\ di = [r \in Reqs |-> 0]
    /\ hasErrors = [r \in Reqs |-> FALSE]
    /\ calls = [r \in Reqs |-> <<>>]

\* One request.
Init == \E q \in Requests : Started([r \in Reqs |-> IF r = 1 THEN q ELSE NoRequest])

Spec == Init /\ [][Next]_vars

(***************************************************************************)
(* Two requests handled concurrently.                                      *)
(***************************************************************************)
ConcBodies ==
    {<<>>,
     <<NullElem>>,
     <<DatumElem(GoodDatum)>>,
     <<HeartRate, DatumElem(GoodDatum)>>,
     <<HeartRate, DatumElem(NumberDate), DatumElem(GoodDatum)>>,
     <<SleepAnalysis, DatumElem(SleepDatum), HeartRate, DatumElem(NoDate)>>}

ConcRequests ==
    {Request("POST", a, FALSE, b) : a \in {"", "supersecret"}, b \in ConcBodies}
    \cup {Request("GET", "supersecret", FALSE, <<>>),
          Request("POST", "supersecret", TRUE, <<>>)}

InitConc == \E q \in [Reqs -> ConcRequests] : Started(q)

SpecConc == InitConc /\ [][Next]_vars

(***************************************************************************)
(* The handler run from its first line to its last on one request, with    *)
(* nothing else running: the set of the ends it can come to, one for each  *)
(* choice of the map orders and of the answers of the write API.           *)
(***************************************************************************)
Call(m, d, res) == [m |-> m, d |-> d, err |-> res.err, writes |-> res.writes]

\* incomingMetric's loop from datum d on.
RECURSIVE DataRuns(_, _, _, _)
DataRuns(b, metric, m, d) ==
    UNION {
        LET res == parseMetricDataPoint(b, metric, metric.Data[d], order, writeOK)
            go == AfterDatum(res.err, d, Len(metric.Data))
        IN  IF go = "next"
            THEN {[failed |-> x.failed, calls |-> <<Call(m, d, res)>> \o x.calls] :
                     x \in DataRuns(b, metric, m, d + 1)}
            ELSE {[failed |-> go = "stop", calls |-> <<Call(m, d, res)>>]}
        : order \in KeyOrders(metric.Data[d]), writeOK \in BOOLEAN}

\* The range loop of handleDataPayload from metric m on.
RECURSIVE LoopRuns(_, _, _, _)
LoopRuns(b, metrics, m, errors) ==
    IF m > Len(metrics)
    THEN {[end |-> "done", status |-> FinalStatus(errors), calls |-> <<>>]}
    ELSE IF metrics[m].ptr = "nil"
    THEN {[end |-> "panicked", status |-> 0, calls |-> <<>>]}
    ELSE LET runs == IF EarlyReturn(b, metrics[m])
                     THEN {[failed |-> FALSE, calls |-> <<>>]}
                     ELSE DataRuns(b, metrics[m], m, 1)
         IN  UNION {{[end |-> y.end, status |-> y.status,
                      calls |-> x.calls \o y.calls] :
                        y \in LoopRuns(b, metrics, m + 1, errors \/ x.failed)} :
                    x \in runs}

HandledAlone(b, token, rq) ==
    LET stop(code) == {[end |-> "done", status |-> code, calls |-> <<>>]}
    IN  IF rq.method # "POST" THEN stop(405)
        ELSE IF rq.auth # token THEN stop(403)
        ELSE IF rq.readErr THEN stop(500)
        ELSE IF Unmarshal(rq.body).err # "nil" THEN stop(400)
        ELSE LoopRuns(b, Unmarshal(rq.body).Metrics, 1, FALSE)

(***************************************************************************)
(* Vocabulary of the properties.                                           *)
(***************************************************************************)
Active == {r \in Reqs : pc[r] # "none"}
Ended(r) == pc[r] \in {"done", "panicked"}
Parsed(r) == payload[r] # NoPayload
Metrics(r) == payload[r].Metrics
MetricIdx(r) == IF Parsed(r) THEN DOMAIN Metrics(r) ELSE {}
RealMetrics(r) == {m \in MetricIdx(r) : Metrics(r)[m].ptr = "ok"}
DatumIdx(r, m) == DOMAIN Metrics(r)[m].Data
DatumOf(r, c) == Metrics(r)[c.m].Data[c.d]

\* The range loop of the handler is past metric m.
Past(r, m) == mi[r] > m
\* incomingMetric was entered for metric m.
Attempted(r, m) == mi[r] > m \/ (mi[r] = m /\ pc[r] \in {"data", "panicked"})

CallIdx(r) == DOMAIN calls[r]
CallsOf(r, m, d) == {i \in CallIdx(r) : calls[r][i].m = m /\ calls[r][i].d = d}
FailedBefore(r, m, d) ==
    \E i \in CallIdx(r) : calls[r][i].m = m /\ calls[r][i].d < d
                          /\ calls[r][i].err # "nil"
MetricFailed(r, m) ==
    \E i \in CallIdx(r) : calls[r][i].m = m /\ calls[r][i].err # "nil"

HasDate(datum) == "date" \in DOMAIN datum
ValidDate(datum) == HasDate(datum) /\ parseMetricDate(datum["date"]).err = "nil"
SleepKeys(datum) ==
    {k \in DOMAIN datum :
        \E i \in DOMAIN sleepAnalysisDateFields : sleepAnalysisDateFields[i] = k}
FieldSet(p) == {p.fields[i] : i \in DOMAIN p.fields}

(***************************************************************************)
(* C1.  A POST whose Authorization header is missing, or is not exactly    *)
(* the configured secret, is answered 403 and makes no call of the write   *)
(* API, whatever its body.                                                 *)
(***************************************************************************)
C1_Unauthorized403 ==
    \A r \in Active :
        (req[r].method = "POST"
            /\ (req[r].auth = "" \/ req[r].auth # authenticationToken))
        => /\ calls[r] = <<>>
           /\ pc[r] \in {"start", "done"}
           /\ Ended(r) => status[r] = 403

(***************************************************************************)
(* C2.  An authenticated POST whose body decodes: every metric is          *)
(* attempted whatever failed before it, the points of the metrics that     *)
(* succeed are written, and the answer is 500 exactly when some metric     *)
(* failed, 200 with an empty body otherwise.                               *)
(***************************************************************************)
C2_EveryMetricAttempted ==
    \A r \in Active :
        (Parsed(r) /\ Ended(r))
        => /\ \A m \in MetricIdx(r) : Attempted(r, m)
           /\ status[r] = (IF \E m \in MetricIdx(r) : MetricFailed(r, m)
                           THEN 500 ELSE 200)
           /\ respBody[r] = ""

(***************************************************************************)
(* C3.  Within one metric the records are handled in array order and the   *)
(* first record whose parseMetricDataPoint fails ends the metric: the      *)
(* records before it were handled without error (and their points          *)
(* submitted), none after it is handled, and the other metrics of the      *)
(* request are handled from their first record all the same.               *)
(***************************************************************************)
C3_FailFastWithinMetric ==
    \A r \in Active :
        /\ \A i \in CallIdx(r) :
            LET c == calls[r][i] IN
            /\ (i = 1 \/ calls[r][i - 1].m # c.m) => c.d = 1
            /\ i > 1 =>
                 LET b == calls[r][i - 1] IN
                 \/ b.m < c.m
                 \/ b.m = c.m /\ c.d = b.d + 1 /\ b.err = "nil"
            /\ c.err # "nil" =>
                 /\ \A j \in CallIdx(r) : j > i => calls[r][j].m # c.m
                 /\ \A d \in 1..(c.d - 1) :
                      \E j \in 1..(i - 1) :
                          /\ calls[r][j].m = c.m /\ calls[r][j].d = d
                          /\ calls[r][j].err = "nil"
                          /\ HasDate(Metrics(r)[c.m].Data[d])
                                => Len(calls[r][j].writes) = 1
                 /\ Past(r, c.m) => hasErrors[r]
        /\ \A m \in RealMetrics(r) :
            (/\ Past(r, m)
             /\ Len(Metrics(r)[m].Data) > 0
             /\ ~(build = "main.go" /\ Metrics(r)[m].Name = "sleep_analysis"))
            => CallsOf(r, m, 1) # {}

\* A metric of three records whose second failed after the first was written.
C3_Witness ==
    \E r \in Active : \E i \in CallIdx(r) :
        /\ pc[r] = "done"
        /\ i > 1
        /\ calls[r][i].err # "nil" /\ calls[r][i].d = 2
        /\ calls[r][i - 1].m = calls[r][i].m
        /\ Len(calls[r][i - 1].writes) = 1
        /\ Len(Metrics(r)[calls[r][i].m].Data) = 3
        /\ i = Len(calls[r])

(***************************************************************************)
(* C4.  A record without a "date" key: parseMetricDataPoint returns nil    *)
(* and calls no write API, the metric is not marked failed by it, and the  *)
(* next record of the metric is handled.                                   *)
(***************************************************************************)
C4_MissingDateSkipped ==
    \A r \in Active :
        /\ \A i \in CallIdx(r) :
            LET c == calls[r][i] IN
            ~HasDate(DatumOf(r, c)) =>
                /\ c.err = "nil"
                /\ c.writes = <<>>
                /\ c.d < Len(Metrics(r)[c.m].Data) =>
                     \/ CallsOf(r, c.m, c.d + 1) # {}
                     \/ pc[r] = "data" /\ mi[r] = c.m /\ di[r] = c.d + 1
        /\ hasErrors[r] =>
             \E i \in CallIdx(r) :
                 calls[r][i].err # "nil" /\ HasDate(DatumOf(r, calls[r][i]))

\* A record without date, then the next record of the metric written, 200.
C4_Witness ==
    \E r \in Active : \E i \in CallIdx(r) :
        /\ pc[r] = "done" /\ status[r] = 200
        /\ ~HasDate(DatumOf(r, calls[r][i]))
        /\ i < Len(calls[r])
        /\ calls[r][i + 1].m = calls[r][i].m
        /\ Len(calls[r][i + 1].writes) = 1

(***************************************************************************)
(* C5.  A record whose "date" is present and not a string fails with the   *)
(* validation error "date must be string" and no point is submitted for    *)
(* it.                                                                     *)
(***************************************************************************)
C5_NonStringDateFails ==
    \A r \in Active : \A i \in CallIdx(r) :
        LET c == calls[r][i]
            datum == DatumOf(r, c)
        IN  (HasDate(datum) /\ datum["date"].t # "string")
            => /\ c.err = "date must be string"
               /\ c.writes = <<>>
               /\ Past(r, c.m) => hasErrors[r]
               /\ pc[r] = "done" => status[r] = 500

C5_Witness ==
    \E r \in Active : \E i \in CallIdx(r) :
        /\ pc[r] = "done"
        /\ HasDate(DatumOf(r, calls[r][i]))
        /\ DatumOf(r, calls[r][i])["date"].t = "number"

(***************************************************************************)
(* C6.  A record of a metric named "sleep_analysis" with a valid date: a   *)
(* point is submitted in which each of inBedEnd, inBedStart, sleepStart,   *)
(* sleepEnd present as a valid date string holds the parsed timestamp.     *)
(* Stated for the records every sleep field of which is valid and that no  *)
(* failure of an earlier record of the metric cuts off.                    *)
(***************************************************************************)
C6_SleepPointEmitted ==
    \A r \in Active : \A m \in RealMetrics(r) :
        (Metrics(r)[m].Name = "sleep_analysis" /\ Past(r, m)) =>
            \A d \in DatumIdx(r, m) :
                LET datum == Metrics(r)[m].Data[d] IN
                (/\ ValidDate(datum)
                 /\ \A k \in SleepKeys(datum) : parseMetricDate(datum[k]).err = "nil"
                 /\ ~FailedBefore(r, m, d))
                => \E i \in CallsOf(r, m, d) :
                       /\ Len(calls[r][i].writes) = 1
                       /\ \A k \in SleepKeys(datum) :
                              [key |-> k, value |-> parseMetricDate(datum[k]).time]
                                  \in FieldSet(calls[r][i].writes[1])

(***************************************************************************)
(* C7.  A record with a valid date under a metric not named                *)
(* "sleep_analysis": exactly one point is submitted, named                 *)
(* "apple_health_" + Name, with exactly one timestamp, the parsed date,    *)
(* the tag units = Units, and as fields the key/value pairs of the record  *)
(* without "date", each value as decoded.                                  *)
(***************************************************************************)
C7_PointOfRecord ==
    \A r \in Active : \A m \in RealMetrics(r) :
        Metrics(r)[m].Name # "sleep_analysis" =>
            \A d \in DatumIdx(r, m) :
                LET datum == Metrics(r)[m].Data[d] IN
                ValidDate(datum) =>
                    /\ Cardinality(CallsOf(r, m, d)) <= 1
                    /\ (Past(r, m) /\ ~FailedBefore(r, m, d))
                          => CallsOf(r, m, d) # {}
                    /\ \A i \in CallsOf(r, m, d) :
                        /\ Len(calls[r][i].writes) = 1
                        /\ LET p == calls[r][i].writes[1] IN
                           /\ p.measurement = "apple_health_" \o Metrics(r)[m].Name
                           /\ p.times = <<TimeParse(datum["date"].s).time>>
                           /\ p.tags = <<[key |-> "units",
                                          value |-> Metrics(r)[m].Units]>>
                           /\ FieldSet(p) = {[key |-> k, value |-> datum[k]] :
                                                k \in DOMAIN datum \ {"date"}}
                           /\ Len(p.fields) = Cardinality(DOMAIN datum) - 1

\* "2024-01-02 09:00:00 +0100" with inBedEnd under heart_rate: the point is
\* stamped 08:00 UTC of the second day and inBedEnd is still the string.
C7_Witness ==
    \E r \in Active : \E i \in CallIdx(r) :
        /\ Metrics(r)[calls[r][i].m].Name = "heart_rate"
        /\ DatumOf(r, calls[r][i]) = SleepDatum
        /\ Len(calls[r][i].writes) = 1
        /\ calls[r][i].writes[1].measurement = "apple_health_heart_rate"
        /\ calls[r][i].writes[1].times = <<TimeValue(32, 1)>>
        /\ [key |-> "inBedEnd", value |-> JString(<<2, 7, 1>>)]
              \in FieldSet(calls[r][i].writes[1])

(***************************************************************************)
(* C9.  A record causes at most one call of the write API, made once its   *)
(* timestamp and all its fields are in the point; a record that fails      *)
(* before (invalid date, invalid sleep_analysis date field, whatever the   *)
(* order of the map) causes none; a failed write is not repeated and is    *)
(* the failure of the record.                                              *)
(***************************************************************************)
C9_AtMostOneWrite ==
    \A r \in Active :
        /\ \A m \in RealMetrics(r) : \A d \in DatumIdx(r, m) :
              Cardinality(CallsOf(r, m, d)) <= 1
        /\ \A i \in CallIdx(r) :
            LET c == calls[r][i]
                datum == DatumOf(r, c)
            IN  /\ Len(c.writes) <= 1
                /\ c.writes # <<>> =>
                     /\ Len(c.writes[1].times) = 1
                     /\ {f.key : f \in FieldSet(c.writes[1])}
                           = DOMAIN datum \ {"date"}
                     /\ c.err \in {"nil", "write error"}
                /\ ~ValidDate(datum) => c.writes = <<>>
                /\ (/\ ValidDate(datum)
                    /\ Metrics(r)[c.m].Name = "sleep_analysis"
                    /\ \E k \in SleepKeys(datum) :
                          parseMetricDate(datum[k]).err # "nil")
                   => c.writes = <<>> /\ c.err # "nil"
                /\ c.err = "write error" =>
                     /\ Len(c.writes) = 1
                     /\ \A j \in CallIdx(r) : j > i => calls[r][j].m # c.m
                     /\ Past(r, c.m) => hasErrors[r]

\* One record whose write failed and one sleep record whose date field is
\* invalid, in one request.
C9_Witness ==
    \E r \in Active : \E i, j \in CallIdx(r) :
        /\ pc[r] = "done" /\ status[r] = 500
        /\ calls[r][i].err = "write error"
        /\ Metrics(r)[calls[r][j].m].Name = "sleep_analysis"
        /\ DatumOf(r, calls[r][j]) = BadSleepDatum
        /\ calls[r][j].err = "parsing time"
        /\ calls[r][j].writes = <<>>

(***************************************************************************)
(* C10.  An authenticated POST whose body decodes, a null element of the   *)
(* metrics array included: the handler runs to its end with 200 or 500     *)
(* after attempting every element; no element makes it abort.              *)
(***************************************************************************)
C10_RunsToCompletion ==
    \A r \in Active :
        /\ pc[r] # "panicked"
        /\ (Parsed(r) /\ pc[r] = "done")
           => status[r] \in {200, 500} /\ mi[r] = Len(Metrics(r)) + 1

Outcome(r) == [end |-> pc[r], status |-> status[r], calls |-> calls[r]]

\* The requests that wrote, or are writing, the debug file.
Writers == {r \in Active : Parsed(r) /\ pc[r] # "open"}

\* Each request that ended did so as it can when handled alone.
EndsAsAlone ==
    \A r \in Active :
        Ended(r) => Outcome(r) \in HandledAlone(build, authenticationToken, req[r])

(***************************************************************************)
(* C8.  Under any interleaving each request ends with a status and a       *)
(* sequence of submitted points it can end with when handled alone; the    *)
(* secret and the write-API handle are never written after startup; the    *)
(* debug file is the only state one request writes and another overwrites, *)
(* and once the requests are done it holds the body of one of those that   *)
(* were parsed.                                                            *)
(***************************************************************************)
C8_FileIsOneBody ==
    /\ EndsAsAlone
    /\ ((\A r \in Active : pc[r] = "done") /\ Writers # {})
          => \E r \in Writers : payloadFile = req[r].body

====
